---- MODULE Spec2Model ----
(***************************************************************************)
(* A model of src/app.py: the session state machine of the chat front end, *)
(* its file-backed persistence (user_chat_history.json, the two feedback   *)
(* logs), the knowledge lookup and the similarity recommender.             *)
(*                                                                         *)
(* Python's None is the string "None".  Python list indices are 0-based;   *)
(* sequences here are 1-based, so message_index i of the code is i + 1     *)
(* here.  A message without a "rating" key has rating = None, which is     *)
(* what message.get("rating", None) reads.  The timestamp and user_role    *)
(* fields of the persisted records are left out: nothing reads them back   *)
(* into the session.                                                       *)
(***************************************************************************)
EXTENDS Integers, Sequences, FiniteSets, TLC

VARIABLES
    session_state,    \* st.session_state: logged_in, username, messages, ...
    chat_file,        \* user_chat_history.json: a list of chat records
    user_feedbacks,   \* user_feedbacks.json: feedback of logged-in users
    feedback_file,    \* feedback.json: feedback of anonymous users
    pc,               \* where the script run stands: idle, qa, stream
    response_stream,  \* the generator get_ai_response_stream returned
    nturns,           \* questions taken up or pending so far (at most MaxTurns)
    last_op,          \* history variable: the last handler and what it did
    writer,           \* SpecConc: each concurrent session's save in progress
    rec,              \* SpecRec: one call of get_smart_recommendations
    kb,               \* SpecLookup: one pair of calls of search_knowledge_context
    sug               \* SpecSuggest: one rendering of the suggestion buttons

vars == <<session_state, chat_file, user_feedbacks, feedback_file, pc,
          response_stream, nturns, last_op, writer, rec, kb, sug>>

\* ------------------------------------------------------------------ bounds

MaxTurns == 1
MaxFeedback == 1

\* --------------------------------------------------------------- constants

None == "None"

\* The keys of USERS.
Users == {"admin", "user"}

\* The persona chosen in the sidebar radio (one of the keys of PERSONAS).
persona_selector == "yunxiaoan"

\* The knowledge base the session machine runs on: rows of huai-an_kb.xlsx.
knowledge_df ==
    << [category |-> "c1", question |-> "q1", context |-> "k1"],
       [category |-> "c2", question |-> "q2", context |-> "k2"] >>

\* What a user may type into the chat input: a knowledge-base question or
\* free text.
ChatTexts == {"q1", "x"}

\* The one fragment of error_generator.
Apology == "apology"

\* What a live stream assembles to.
Replies == {"reply"}

Ratings == {"good", "bad"}

Range(s) == {s[i] : i \in DOMAIN s}

\* ------------------------------------------------------- session and files

\* The session state after the initialisation block of the script.
InitSession ==
    [logged_in |-> FALSE, username |-> None, messages |-> <<>>,
     asked_questions |-> {}, selected_category |-> None,
     question_to_ask |-> None]

Message(role, content) ==
    [role |-> role, content |-> content, persona |-> persona_selector,
     rating |-> None]

chat_data_without_asked(ss) ==
    [username |-> ss.username, messages |-> ss.messages,
     asked_questions |-> {}, selected_category |-> ss.selected_category]

chat_data(ss) ==
    [username |-> ss.username, messages |-> ss.messages,
     asked_questions |-> ss.asked_questions,
     selected_category |-> ss.selected_category]

NoData ==
    [username |-> None, messages |-> <<>>, asked_questions |-> {},
     selected_category |-> None]

HasRecord(all_chats, username) ==
    \E i \in DOMAIN all_chats : all_chats[i].username = username

\* The first index whose record is the user's.
user_chat_index(all_chats, username) ==
    CHOOSE i \in DOMAIN all_chats :
        /\ all_chats[i].username = username
        /\ \A j \in DOMAIN all_chats : all_chats[j].username = username => i <= j

UpsertAlwaysAppend(all_chats, data) == Append(all_chats, data)

UpsertKeepsFirst(all_chats, data) ==
    IF HasRecord(all_chats, data.username) THEN all_chats
    ELSE Append(all_chats, data)

\* Replace the user's record in place, or append a new one.
Upsert(all_chats, data) ==
    IF HasRecord(all_chats, data.username)
    THEN [all_chats EXCEPT ![user_chat_index(all_chats, data.username)] = data]
    ELSE Append(all_chats, data)

save_chat_history_saves_empty(ss, file, io_ok) ==
    IF ~ss.logged_in
    THEN [ok |-> FALSE, file |-> file]
    ELSE IF ~io_ok
    THEN [ok |-> FALSE, file |-> file]
    ELSE [ok |-> TRUE, file |-> Upsert(file, chat_data(ss))]

\* save_chat_history: nothing is written for an anonymous session or an
\* empty transcript; an exception while reading or writing returns False.
save_chat_history(ss, file, io_ok) ==
    IF ~ss.logged_in \/ ss.messages = <<>>
    THEN [ok |-> FALSE, file |-> file]
    ELSE IF ~io_ok
    THEN [ok |-> FALSE, file |-> file]
    ELSE [ok |-> TRUE, file |-> Upsert(file, chat_data(ss))]

\* load_user_chat_history: the first record of the user, or None.
load_user_chat_history(file, username, io_ok) ==
    IF io_ok /\ HasRecord(file, username)
    THEN file[user_chat_index(file, username)]
    ELSE NoData

\* ------------------------------------------------------- history variable

\* What the last handler did: its name, an index or a length it saw, a value
\* it was given, how its call of save_chat_history ended (none: not called),
\* whether the user had a record in the file it read, and whether the
\* script run ended with an exception nothing caught.
Op(op, n, val, save, had) ==
    [op |-> op, n |-> n, val |-> val, save |-> save, had |-> had, exc |-> FALSE]

NoSave(op, n, val) == Op(op, n, val, "none", FALSE)

SaveOutcome(ss, io_ok) ==
    IF ~ss.logged_in \/ ss.messages = <<>> THEN "skipped"
    ELSE IF ~io_ok THEN "failed"
    ELSE "saved"

Saved(op, n, val, ss, file, io_ok) ==
    Op(op, n, val, SaveOutcome(ss, io_ok), HasRecord(file, ss.username))

\* ------------------------------------------------------------- callbacks

set_category_keeps_chat(ss, category) ==
    [ss EXCEPT !.selected_category = category, !.asked_questions = {}]

set_category(ss, category) ==
    [ss EXCEPT !.selected_category = category, !.messages = <<>>,
               !.asked_questions = {}]

ask_question(ss, question) == [ss EXCEPT !.question_to_ask = question]

\* After a handler the script runs on to the live Q&A block, which takes up
\* a pending question.
AfterRun(ss) == IF ss.question_to_ask # None THEN "qa" ELSE "idle"

FilesUnchanged == UNCHANGED <<chat_file, user_feedbacks, feedback_file>>
OthersUnchanged == UNCHANGED <<writer, rec, kb, sug>>

\* --------------------------------------------------------- feedback logs

feedback_data(ss, i, rating) ==
    [username |-> ss.username,
     question |-> IF i > 1 THEN ss.messages[i - 1].content ELSE "",
     answer |-> ss.messages[i].content, persona |-> ss.messages[i].persona,
     rating |-> rating, feedback_text |-> ""]

\* save_user_feedback: None (falsy) when the index is out of range or the
\* message is not an assistant message, False on an exception, else the
\* record is appended to the log that was read.
save_user_feedback(ss, file, i, rating, rd_ok, wr_ok) ==
    IF ~ss.logged_in
    THEN [ok |-> FALSE, file |-> file]
    ELSE IF ~(i <= Len(ss.messages) /\ ss.messages[i].role = "assistant")
    THEN [ok |-> FALSE, file |-> file]
    ELSE IF ~(rd_ok /\ wr_ok)
    THEN [ok |-> FALSE, file |-> file]
    ELSE [ok |-> TRUE, file |-> Append(file, feedback_data(ss, i, rating))]

\* save_feedback: a log that cannot be read counts as empty; the new record
\* is appended to what was read and the whole list is written back.
save_feedback(file, question, answer, persona, rating, rd_ok, wr_ok) ==
    LET feedbacks == IF rd_ok THEN file ELSE <<>>
        data == [username |-> None, question |-> question, answer |-> answer,
                 persona |-> persona, rating |-> rating, feedback_text |-> ""]
    IN  IF wr_ok
        THEN [ok |-> TRUE, file |-> Append(feedbacks, data)]
        ELSE [ok |-> FALSE, file |-> file]

\* display_rating_buttons: both buttons are disabled once the message has a
\* rating.
rating_disabled_never(message) == FALSE

rating_disabled(message) == message.rating # None

rate_response_ignores_failure(ss, uf, ff, i, rating, rd_ok, wr_ok) ==
    IF i <= Len(ss.messages) /\ i > 1
       /\ ss.messages[i - 1].role = "user" /\ ss.messages[i].role = "assistant"
    THEN LET res == IF ss.logged_in
                    THEN save_user_feedback(ss, uf, i, rating, rd_ok, wr_ok)
                    ELSE save_feedback(ff, ss.messages[i - 1].content,
                                       ss.messages[i].content,
                                       ss.messages[i].persona, rating,
                                       rd_ok, wr_ok)
         IN  [ss |-> [ss EXCEPT !.messages[i].rating = rating],
              uf |-> IF ss.logged_in THEN res.file ELSE uf,
              ff |-> IF ss.logged_in THEN ff ELSE res.file,
              ok |-> TRUE]
    ELSE [ss |-> ss, uf |-> uf, ff |-> ff, ok |-> FALSE]

\* rate_response: the feedback is saved for an assistant message that
\* follows a user message, and the rating is set when the save succeeded.
\* Returns the session, the two logs and whether the rating was set.
rate_response(ss, uf, ff, i, rating, rd_ok, wr_ok) ==
    IF i <= Len(ss.messages) /\ i > 1
       /\ ss.messages[i - 1].role = "user" /\ ss.messages[i].role = "assistant"
    THEN LET res == IF ss.logged_in
                    THEN save_user_feedback(ss, uf, i, rating, rd_ok, wr_ok)
                    ELSE save_feedback(ff, ss.messages[i - 1].content,
                                       ss.messages[i].content,
                                       ss.messages[i].persona, rating,
                                       rd_ok, wr_ok)
         IN  [ss |-> IF res.ok
                     THEN [ss EXCEPT !.messages[i].rating = rating]
                     ELSE ss,
              uf |-> IF ss.logged_in THEN res.file ELSE uf,
              ff |-> IF ss.logged_in THEN ff ELSE res.file,
              ok |-> res.ok]
    ELSE [ss |-> ss, uf |-> uf, ff |-> ff, ok |-> FALSE]

\* ------------------------------------------------------ the recommender

\* top_n=3, the default every call in the script uses.
top_n_default == 3

\* similarity_scores[idx] > 0.1; scores are in hundredths here.
Threshold == 10

\* The cosine similarities TF-IDF may give a candidate: 0, the threshold
\* itself, just above it, and a high one.
ScoreVals == {0, 10, 11, 60}

SeqsUpTo(S, n) == UNION {[1..k -> S] : k \in 0..n}

\* history_questions: the contents of the user messages of the history.
history_questions(user_history) ==
    {user_history[i].content :
        i \in {j \in DOMAIN user_history : user_history[j].role = "user"}}

available_questions_unfiltered(all_questions, user_history) == all_questions

\* available_questions: the candidates that are no history question, in
\* the order of the knowledge base.
available_questions(all_questions, user_history) ==
    SelectSeq(all_questions, LAMBDA q : q \notin history_questions(user_history))

Min(a, b) == IF a <= b THEN a ELSE b

Reverse(s) == [i \in 1..Len(s) |-> s[Len(s) + 1 - i]]

\* s[-n:] of Python for n >= 1.
LastN(s, n) == SubSeq(s, Len(s) - Min(n, Len(s)) + 1, Len(s))

Perms(n) ==
    {p \in [1..n -> 1..n] : \A i, j \in 1..n : p[i] = p[j] => i = j}

\* similarity_scores.argsort(): an order of the indices by ascending score.
\* numpy's default sort is not stable, so equal scores may come in any
\* order.
ArgSorts(scores) ==
    {p \in Perms(Len(scores)) :
        \A i, j \in 1..Len(scores) : i < j => scores[p[i]] <= scores[p[j]]}

\* argsort()[-top_n:][::-1]
top_indices(order, top_n) == Reverse(LastN(order, top_n))

\* The loop over top_indices: the candidates above the threshold, each
\* with its score.
recommendations(available, scores, top) ==
    LET kept == SelectSeq(top, LAMBDA idx : scores[idx] > Threshold)
    IN  [i \in 1..Len(kept) |->
            [type |-> "dict", question |-> available[kept[i]],
             similarity |-> scores[kept[i]]]]

\* random.sample(available_questions, k): k entries at distinct positions,
\* as bare strings.
Samples(available, k) ==
    {[i \in 1..k |-> [type |-> "str", question |-> available[p[i]]]] :
        p \in Perms(Len(available))}

\* get_smart_recommendations: what a call may return.  Nothing for an
\* empty knowledge base, an empty question or no candidate left; else the
\* candidates above the threshold among the top_n of some score vector,
\* or, when the vectorizer raised, a random sample of bare strings.
get_smart_recommendations(current_question, all_questions, user_history, top_n) ==
    LET available == available_questions(all_questions, user_history)
    IN  IF all_questions = <<>> \/ current_question = "" \/ available = <<>>
        THEN {<<>>}
        ELSE UNION {{recommendations(available, scores, top_indices(order, top_n)) :
                        order \in ArgSorts(scores)} :
                    scores \in [1..Len(available) -> ScoreVals]}
             \cup Samples(available, Min(top_n, Len(available)))

\* display_smart_recommendations: each item is read as rec['question'] and
\* rec['similarity']; on a bare string that raises TypeError.
display_smart_recommendations(recs) ==
    IF \E i \in DOMAIN recs : recs[i].type = "str" THEN "TypeError" ELSE "shown"

\* ------------------------------------------------------ the main script

Categories == {knowledge_df[i].category : i \in DOMAIN knowledge_df}

\* The questions of the selected category that were not asked yet.
available_qs(ss) ==
    {knowledge_df[i].question : i \in
        {j \in DOMAIN knowledge_df :
            /\ knowledge_df[j].category = ss.selected_category
            /\ knowledge_df[j].question \notin ss.asked_questions}}

\* A category button (shown while no category is selected): the on_click
\* callback set_category runs, then the script.
SetCategoryClick(c) ==
    /\ pc = "idle"
    /\ session_state.selected_category = None
    /\ c \in Categories
    /\ session_state' = set_category(session_state, c)
    /\ pc' = AfterRun(session_state')
    /\ last_op' = NoSave("set_category", Len(session_state.messages), c)
    /\ UNCHANGED <<response_stream, nturns>>
    /\ FilesUnchanged /\ OthersUnchanged

\* A suggested-question button of the selected category: the on_click
\* callback ask_question runs, then the script takes the question up.  The
\* callback writes over a question that is still pending, which adds no
\* turn.
AskButton(q) ==
    /\ pc = "idle"
    /\ session_state.selected_category # None
    /\ q \in available_qs(session_state)
    /\ nturns < MaxTurns \/ session_state.question_to_ask # None
    /\ session_state' = ask_question(session_state, q)
    /\ pc' = AfterRun(session_state')
    /\ nturns' = IF session_state.question_to_ask # None THEN nturns ELSE nturns + 1
    /\ last_op' = NoSave("ask_button", 0, None)
    /\ UNCHANGED response_stream
    /\ FilesUnchanged /\ OthersUnchanged

\* The chat input sits at the end of the script, after the live Q&A block.
\* A run that finds a question pending processes it and reruns, and the
\* submitted text is lost; otherwise the text becomes the pending question
\* and the script ends.
ChatInput(q) ==
    /\ pc = "idle"
    /\ session_state.selected_category # None
    /\ q \in ChatTexts
    /\ IF session_state.question_to_ask # None
       THEN /\ pc' = "qa"
            /\ UNCHANGED <<session_state, nturns>>
            /\ last_op' = NoSave("chat_input_lost", 0, None)
       ELSE /\ nturns < MaxTurns
            /\ session_state' = ask_question(session_state, q)
            /\ pc' = "idle"
            /\ nturns' = nturns + 1
            /\ last_op' = NoSave("chat_input", 0, None)
    /\ UNCHANGED response_stream
    /\ FilesUnchanged /\ OthersUnchanged

BackToTopicsClearsChat ==
    /\ pc = "idle"
    /\ session_state.selected_category # None
    /\ IF session_state.question_to_ask # None
       THEN /\ pc' = "qa"
            /\ UNCHANGED session_state
            /\ last_op' = NoSave("back_lost", 0, None)
       ELSE /\ session_state' = set_category(session_state, None)
            /\ pc' = "idle"
            /\ last_op' = NoSave("back", 0, None)
    /\ UNCHANGED <<response_stream, nturns>>
    /\ FilesUnchanged /\ OthersUnchanged

\* The back-to-topics button also sits after the live Q&A block.
BackToTopics ==
    /\ pc = "idle"
    /\ session_state.selected_category # None
    /\ IF session_state.question_to_ask # None
       THEN /\ pc' = "qa"
            /\ UNCHANGED session_state
            /\ last_op' = NoSave("back_lost", 0, None)
       ELSE /\ session_state' = [session_state EXCEPT !.selected_category = None]
            /\ pc' = "idle"
            /\ last_op' = NoSave("back", 0, None)
    /\ UNCHANGED <<response_stream, nturns>>
    /\ FilesUnchanged /\ OthersUnchanged

\* Any other interaction (the persona radio, a rejected login, a page
\* toggle) reruns the script, which takes up a pending question.
Rerun ==
    /\ pc = "idle"
    /\ session_state.question_to_ask # None
    /\ pc' = "qa"
    /\ last_op' = NoSave("rerun", 0, None)
    /\ UNCHANGED <<session_state, response_stream, nturns>>
    /\ FilesUnchanged /\ OthersUnchanged

ClearSessionResetsFirst ==
    /\ pc = "idle"
    /\ session_state' = [session_state EXCEPT
            !.messages = <<>>, !.asked_questions = {},
            !.selected_category = None, !.question_to_ask = None]
    /\ \E io_ok \in BOOLEAN :
        /\ chat_file' = IF session_state.logged_in
                        THEN save_chat_history(session_state', chat_file, io_ok).file
                        ELSE chat_file
        /\ last_op' = IF session_state.logged_in
                      THEN Saved("clear", 0, None,
                                 session_state', chat_file, io_ok)
                      ELSE NoSave("clear", 0, None)
    /\ pc' = "idle"
    /\ UNCHANGED <<user_feedbacks, feedback_file, response_stream, nturns>>
    /\ OthersUnchanged

\* The clear-session button of the sidebar.
ClearSession ==
    /\ pc = "idle"
    /\ \E io_ok \in BOOLEAN :
        /\ chat_file' = IF session_state.logged_in
                        THEN save_chat_history(session_state, chat_file, io_ok).file
                        ELSE chat_file
        /\ last_op' = IF session_state.logged_in
                      THEN Saved("clear", 0, None,
                                 session_state, chat_file, io_ok)
                      ELSE NoSave("clear", 0, None)
    /\ session_state' = [session_state EXCEPT
            !.messages = <<>>, !.asked_questions = {},
            !.selected_category = None, !.question_to_ask = None]
    /\ pc' = "idle"
    /\ UNCHANGED <<user_feedbacks, feedback_file, response_stream, nturns>>
    /\ OthersUnchanged

LogoutWithoutSave ==
    /\ pc = "idle"
    /\ session_state.logged_in
    /\ last_op' = Op("logout", 0, None, "skipped",
                     HasRecord(chat_file, session_state.username))
    /\ session_state' = InitSession
    /\ pc' = "idle"
    /\ UNCHANGED <<chat_file, user_feedbacks, feedback_file, response_stream,
                   nturns>>
    /\ OthersUnchanged

\* logout_button (shown while logged in).
Logout ==
    /\ pc = "idle"
    /\ session_state.logged_in
    /\ \E io_ok \in BOOLEAN :
        /\ chat_file' = save_chat_history(session_state, chat_file, io_ok).file
        /\ last_op' = Saved("logout", 0, None,
                            session_state, chat_file, io_ok)
    /\ session_state' = InitSession
    /\ pc' = "idle"
    /\ UNCHANGED <<user_feedbacks, feedback_file, response_stream, nturns>>
    /\ OthersUnchanged

\* login_form with credentials authenticate_user accepts (shown while
\* logged out): the user's record, if one is found, replaces the live
\* transcript; question_to_ask is left as it is.
Login(u) ==
    /\ pc = "idle"
    /\ ~session_state.logged_in
    /\ u \in Users
    /\ \E io_ok \in BOOLEAN :
        LET user_history == load_user_chat_history(chat_file, u, io_ok)
        IN  /\ session_state' = [session_state EXCEPT
                    !.logged_in = TRUE, !.username = u,
                    !.messages = user_history.messages,
                    !.asked_questions = user_history.asked_questions,
                    !.selected_category = user_history.selected_category]
            /\ last_op' = Op("login", 0, None, "none", user_history # NoData)
    /\ pc' = AfterRun(session_state')
    /\ UNCHANGED <<response_stream, nturns>>
    /\ FilesUnchanged /\ OthersUnchanged

\* A rating button under assistant message i.  A disabled button does
\* nothing; an enabled one calls rate_response, and the script reruns or
\* runs on, either way reaching the live Q&A block.
RateButton(i, r) ==
    /\ pc = "idle"
    /\ i \in DOMAIN session_state.messages
    /\ session_state.messages[i].role = "assistant"
    /\ r \in Ratings
    /\ IF rating_disabled(session_state.messages[i])
       THEN /\ last_op' = NoSave("rate_disabled", i, r)
            /\ UNCHANGED <<session_state, user_feedbacks, feedback_file, pc>>
       ELSE /\ \E rd_ok, wr_ok \in BOOLEAN :
                LET res == rate_response(session_state, user_feedbacks,
                                         feedback_file, i, r, rd_ok, wr_ok)
                IN  /\ Len(res.uf) <= MaxFeedback
                    /\ Len(res.ff) <= MaxFeedback
                    /\ session_state' = res.ss
                    /\ user_feedbacks' = res.uf
                    /\ feedback_file' = res.ff
                    /\ last_op' = NoSave(IF res.ok THEN "rate" ELSE "rate_failed", i, r)
            /\ pc' = AfterRun(session_state')
    /\ UNCHANGED <<chat_file, response_stream, nturns>>
    /\ OthersUnchanged

get_ai_response_stream_live(invoke_ok) == "live"

\* get_ai_response_stream: the generator of the service's fragments, or
\* error_generator when the invocation raised.
get_ai_response_stream(invoke_ok) ==
    IF invoke_ok THEN "live" ELSE "error_generator"

\* The fragments error_generator yields.
error_generator == <<Apology>>

\* The fragments a stream may yield until it is exhausted: the service
\* cuts its reply into fragments as it likes.
Fragments(stream) ==
    IF stream = "error_generator" THEN {error_generator}
    ELSE {<<reply>> : reply \in Replies} \cup {<<"re", "ply">>}

\* The text st.write_stream assembles from the fragments it consumed.
write_stream(fragments) ==
    IF fragments = <<"re", "ply">> THEN "reply" ELSE fragments[1]

take_question_unrecorded(ss) ==
    [ss EXCEPT !.question_to_ask = None,
               !.messages = Append(@, Message("user", ss.question_to_ask))]

\* The head of the live Q&A block: the pending question is taken out of its
\* slot, added to asked_questions and appended as a user message.
take_question(ss) ==
    [ss EXCEPT !.question_to_ask = None,
               !.asked_questions = @ \cup {ss.question_to_ask},
               !.messages = Append(@, Message("user", ss.question_to_ask))]

\* The live Q&A block up to the invocation of the completion service.
QAStart ==
    /\ pc = "qa"
    /\ session_state' = take_question(session_state)
    /\ \E invoke_ok \in BOOLEAN :
        /\ response_stream' = get_ai_response_stream(invoke_ok)
        /\ last_op' = NoSave("qa_start", 0, IF invoke_ok THEN "invoked" ELSE "raised")
    /\ pc' = "stream"
    /\ UNCHANGED nturns
    /\ FilesUnchanged /\ OthersUnchanged

\* What st.write_stream can return for the stream.
FullResponses(stream) ==
    {write_stream(fragments) : fragments \in Fragments(stream)}

\* knowledge_df['问题'].dropna().tolist()
all_questions == [i \in DOMAIN knowledge_df |-> knowledge_df[i].question]

\* The rest of the block once write_stream returned: the assistant message
\* is appended, a logged-in session is saved, the recommendations for the
\* question are computed and displayed, and the script reruns; an exception
\* in the display ends the run before the rerun.
StreamComplete ==
    /\ pc = "stream"
    /\ \E full_response \in FullResponses(response_stream), io_ok \in BOOLEAN :
        LET question == session_state.messages[Len(session_state.messages)].content
            ss == [session_state EXCEPT
                      !.messages = Append(@, Message("assistant", full_response))]
        IN  /\ session_state' = ss
            /\ chat_file' = IF ss.logged_in
                            THEN save_chat_history(ss, chat_file, io_ok).file
                            ELSE chat_file
            /\ \E recs \in get_smart_recommendations(question, all_questions,
                                                     ss.messages, top_n_default) :
                last_op' = [(IF ss.logged_in
                             THEN Saved("turn", 0, None, ss, chat_file, io_ok)
                             ELSE NoSave("turn", 0, None))
                            EXCEPT !.exc = display_smart_recommendations(recs) = "TypeError"]
    /\ pc' = "idle"
    /\ response_stream' = None
    /\ UNCHANGED <<user_feedbacks, feedback_file, nturns>>
    /\ OthersUnchanged

\* The live generator raises while write_stream consumes it: nothing
\* catches the exception and the script run ends there.
StreamBroken ==
    /\ pc = "stream"
    /\ response_stream = "live"
    /\ pc' = "idle"
    /\ response_stream' = None
    /\ last_op' = [NoSave("stream_broken", 0, None) EXCEPT !.exc = TRUE]
    /\ UNCHANGED <<session_state, nturns>>
    /\ FilesUnchanged /\ OthersUnchanged

Idle == [pc |-> "none"]

Init ==
    /\ session_state = InitSession
    /\ chat_file = <<>>
    /\ user_feedbacks = <<>>
    /\ feedback_file = <<>>
    /\ pc = "idle"
    /\ response_stream = None
    /\ nturns = 0
    /\ last_op = NoSave("init", 0, None)
    /\ sug = Idle
    /\ writer = Idle
    /\ rec = Idle
    /\ kb = Idle

Next ==
    \/ \E c \in Categories : SetCategoryClick(c)
    \/ \E q \in {knowledge_df[i].question : i \in DOMAIN knowledge_df} : AskButton(q)
    \/ \E q \in ChatTexts : ChatInput(q)
    \/ BackToTopics
    \/ Rerun
    \/ ClearSession
    \/ Logout
    \/ \E u \in Users : Login(u)
    \/ \E i \in 1..(2 * MaxTurns), r \in Ratings : RateButton(i, r)
    \/ QAStart
    \/ StreamComplete
    \/ StreamBroken

Spec == Init /\ [][Next]_vars

\* ------------------------------------------------- claims on the session

\* C1: select_category(c) leaves the session with selected_category = c, an
\* empty transcript and an empty asked_questions set, whatever they held
\* before.
C1_TopicSwitchResets ==
    last_op.op = "set_category" =>
        /\ session_state.selected_category = last_op.val
        /\ session_state.messages = <<>>
        /\ session_state.asked_questions = {}

\* C1's case: a category was selected over a transcript that held a whole
\* turn.
C1_Witness ==
    /\ last_op.op = "set_category"
    /\ last_op.n >= 2
    /\ session_state.selected_category \in Categories

\* C2: in every reachable state the content of every user message of the
\* transcript is a member of asked_questions.
C2_UserContentsAsked ==
    \A i \in DOMAIN session_state.messages :
        session_state.messages[i].role = "user" =>
            session_state.messages[i].content \in session_state.asked_questions

\* C2's case: a login restored a transcript that holds a user message.
C2_Witness ==
    /\ last_op.op = "login"
    /\ last_op.had
    /\ \E i \in DOMAIN session_state.messages :
            session_state.messages[i].role = "user"

\* C3: once a message has a rating, a later press of a rating button on it
\* changes nothing: the rating stays what it was.
C3_RatingSetOnce ==
    [][\A i \in DOMAIN session_state.messages :
          (/\ session_state.messages[i].rating # None
           /\ last_op'.op \in {"rate", "rate_failed", "rate_disabled"}
           /\ last_op'.n = i)
          => /\ session_state' = session_state
             /\ user_feedbacks' = user_feedbacks
             /\ feedback_file' = feedback_file]_vars

\* C3's case: "bad" was pressed on a message rated "good".
C3_Witness ==
    /\ last_op.op = "rate_disabled"
    /\ last_op.val = "bad"
    /\ last_op.n \in DOMAIN session_state.messages
    /\ session_state.messages[last_op.n].rating = "good"

\* C12: when the invocation of the completion service raises, the stream
\* yields exactly one fragment, the apology; the step that ends the turn
\* appends one assistant message with exactly that content and leaves the
\* session idle with no pending question.
C12_ServiceErrorApology ==
    [][(pc = "stream" /\ last_op.op = "qa_start" /\ last_op.val = "raised")
          => /\ Fragments(response_stream) = {<<Apology>>}
             /\ session_state'.messages =
                    Append(session_state.messages, Message("assistant", Apology))
             /\ session_state'.question_to_ask = None
             /\ pc' = "idle"]_vars

\* C12's case: the invocation raised and the turn ended with the apology
\* as the reply to the question.
C12_Witness ==
    /\ last_op.op = "turn"
    /\ pc = "idle"
    /\ Len(session_state.messages) >= 2
    /\ session_state.messages[Len(session_state.messages)].content = Apology
    /\ session_state.messages[Len(session_state.messages) - 1].role = "user"

\* C13 as stated: every question that enters processing is followed by
\* an assistant message: whenever no turn is in progress, the transcript
\* does not end with a user message that has no reply.
C13_AsStated ==
    pc = "idle" =>
        \/ session_state.messages = <<>>
        \/ session_state.messages[Len(session_state.messages)].role = "assistant"

RecordsOf(file, username) ==
    {i \in DOMAIN file : file[i].username = username}

\* The chat_data the handler of a step passed to save_chat_history: the
\* turn saves the transcript it has just completed, clear and logout save
\* the session they are about to reset.
SavedData ==
    IF last_op'.op = "turn" THEN chat_data(session_state')
    ELSE chat_data(session_state)

HoldsExactly(file, data) ==
    /\ Cardinality(RecordsOf(file, data.username)) = 1
    /\ \A i \in RecordsOf(file, data.username) : file[i] = data

\* C14: clear() ends with no category selected, an empty transcript, an
\* empty asked_questions set and no pending question, the identity left
\* bound; in a session bound to an identity the pre-clear session is saved
\* first (unless the save fails or the transcript is empty), and the
\* collection is untouched otherwise.
C14_ClearResetsAfterSave ==
    [][last_op'.op = "clear" =>
          /\ session_state' = [InitSession EXCEPT
                !.logged_in = session_state.logged_in,
                !.username = session_state.username]
          /\ (/\ session_state.logged_in
              /\ session_state.messages # <<>>
              /\ last_op'.save # "failed")
             => HoldsExactly(chat_file',
                    [username |-> session_state.username,
                     messages |-> session_state.messages,
                     asked_questions |-> session_state.asked_questions,
                     selected_category |-> session_state.selected_category])
          /\ (~session_state.logged_in \/ session_state.messages = <<>>
              \/ last_op'.save = "failed")
             => chat_file' = chat_file]_vars

\* C14's case: a logged-in session with a transcript and a selected
\* category was cleared, and the record holds what the session held.
C14_Witness ==
    /\ last_op.op = "clear"
    /\ last_op.save = "saved"
    /\ session_state.logged_in
    /\ session_state.messages = <<>>
    /\ session_state.selected_category = None
    /\ \E i \in DOMAIN chat_file :
            /\ chat_file[i].username = session_state.username
            /\ chat_file[i].messages # <<>>
            /\ chat_file[i].selected_category # None

\* C15: when a turn completes in a session bound to an identity and the
\* write succeeds, the identity's one record holds the live transcript
\* (the new user and assistant messages included), asked_questions and
\* selected_category; in a session bound to no identity the turn leaves
\* the collection unchanged.
C15_TurnPersistsLiveSession ==
    [][last_op'.op = "turn" =>
          /\ (session_state'.logged_in /\ last_op'.save = "saved")
             => /\ HoldsExactly(chat_file',
                      [username |-> session_state'.username,
                       messages |-> session_state'.messages,
                       asked_questions |-> session_state'.asked_questions,
                       selected_category |-> session_state'.selected_category])
                /\ Len(session_state'.messages) >= 2
                /\ session_state'.messages[Len(session_state'.messages)].role
                      = "assistant"
          /\ ~session_state'.logged_in => chat_file' = chat_file]_vars

\* C15's case: a turn of a logged-in session completed and was saved.
C15_Witness ==
    /\ last_op.op = "turn"
    /\ last_op.save = "saved"
    /\ session_state.logged_in
    /\ session_state.asked_questions # {}
    /\ HasRecord(chat_file, session_state.username)

C19_AsStated ==
    last_op.op = "turn" =>
        /\ Len(session_state.messages) >= 2
        /\ session_state.messages[Len(session_state.messages) - 1].role = "user"
        /\ session_state.messages[Len(session_state.messages)].role = "assistant"
        /\ session_state.question_to_ask = None
        /\ ~last_op.exc

\* C21: logout of a logged-in session first saves the session under the
\* current identity (unless the save fails or the transcript is empty)
\* and then resets it: no identity is bound, the transcript and
\* asked_questions are empty, no category is selected and no question is
\* pending.
C21_LogoutSavesThenResets ==
    [][last_op'.op = "logout" =>
          /\ session_state.logged_in
          /\ session_state' = InitSession
          /\ (session_state.messages # <<>> /\ last_op'.save # "failed")
             => HoldsExactly(chat_file',
                    [username |-> session_state.username,
                     messages |-> session_state.messages,
                     asked_questions |-> session_state.asked_questions,
                     selected_category |-> session_state.selected_category])
          /\ (session_state.messages = <<>> \/ last_op'.save = "failed")
             => chat_file' = chat_file]_vars

\* C21's case: a session with a transcript was logged out, and the
\* identity that was bound has its record.
C21_Witness ==
    /\ last_op.op = "logout"
    /\ last_op.save = "saved"
    /\ session_state = InitSession
    /\ \E i \in DOMAIN chat_file : chat_file[i].messages # <<>>

C24_AsStated ==
    pc = "idle" =>
        /\ Len(session_state.messages) % 2 = 0
        /\ \A i \in DOMAIN session_state.messages :
              session_state.messages[i].role =
                  IF i % 2 = 1 THEN "user" ELSE "assistant"

\* C25: a save with an empty transcript or with no identity bound fails
\* and leaves the collection unchanged, so every record of the collection
\* has a non-empty transcript, and a record persisted earlier survives a
\* clear or a category switch followed by a logout.
C25_EmptySaveWritesNothing ==
    [][/\ \A i \in DOMAIN chat_file' : chat_file'[i].messages # <<>>
       /\ (/\ last_op'.op \in {"clear", "logout"}
           /\ ~session_state.logged_in \/ session_state.messages = <<>>)
          => /\ chat_file' = chat_file
             /\ last_op'.save \in {"none", "skipped"}
       /\ (last_op'.op = "turn" /\ ~session_state.logged_in)
          => chat_file' = chat_file]_vars

\* C25's case: a logout with an empty transcript found the record a turn
\* had persisted and left it in place.
C25_Witness ==
    /\ last_op.op = "logout"
    /\ last_op.save = "skipped"
    /\ last_op.had
    /\ \E i \in DOMAIN chat_file : Len(chat_file[i].messages) >= 2

\* C26: the back-to-all-topics action changes only selected_category, to
\* none: the transcript, asked_questions, the pending question, the bound
\* identity and the durable collections are unchanged (C26_Witness: a
\* state with no category selected and a non-empty transcript).
C26_BackChangesOnlyCategory ==
    [][last_op'.op \in {"back", "back_lost"} =>
          /\ session_state'.messages = session_state.messages
          /\ session_state'.asked_questions = session_state.asked_questions
          /\ session_state'.question_to_ask = session_state.question_to_ask
          /\ session_state'.logged_in = session_state.logged_in
          /\ session_state'.username = session_state.username
          /\ last_op'.op = "back" => session_state'.selected_category = None
          /\ chat_file' = chat_file
          /\ user_feedbacks' = user_feedbacks
          /\ feedback_file' = feedback_file]_vars

\* C26's case: back to all topics was pressed over a transcript, which is
\* still there with no category selected.
C26_Witness ==
    /\ last_op.op = "back"
    /\ session_state.selected_category = None
    /\ Len(session_state.messages) >= 2
    /\ session_state.asked_questions # {}

\* C5 as stated: a save for an identity that already has a record (no I/O
\* error) leaves exactly one record of the identity, holding that save's
\* content, an empty transcript included.
C5_AsStated ==
    [][(last_op'.save \in {"saved", "skipped"} /\ last_op'.had)
          => HoldsExactly(chat_file', SavedData)]_vars

\* C5, amended: the same for a save with a non-empty transcript; a save
\* with an empty transcript leaves the collection as it is.
C5_UpsertNonEmpty ==
    [][/\ (last_op'.save = "saved" /\ last_op'.had)
            => HoldsExactly(chat_file', SavedData)
       /\ last_op'.save = "skipped" => chat_file' = chat_file]_vars

\* C5's case: a second save of an identity went through, and the record
\* holds a rating, which a turn's own save never does.
C5_Witness ==
    /\ last_op.save = "saved"
    /\ last_op.had
    /\ \E i \in DOMAIN chat_file : \E j \in DOMAIN chat_file[i].messages :
            chat_file[i].messages[j].rating # None

\* ------------------------------------------------ concurrent sessions

\* Two browser sessions of the one server process, each logged in with a
\* non-empty transcript and saving it again and again.  save_chat_history
\* reads the whole file, changes the list in memory and writes the whole
\* file back; the two file operations of one call are two steps here, and
\* each of them is taken to be atomic.
Sessions == {"s1", "s2"}

ConcTranscripts ==
    { <<Message("user", "q1"), Message("assistant", "reply")>>,
      <<Message("user", "x"), Message("assistant", Apology)>> }

ConcData(u, msgs) ==
    [username |-> u, messages |-> msgs,
     asked_questions |-> {msgs[1].content}, selected_category |-> "c1"]

\* The collections a run may start from: empty, or free of duplicates.
InitCollections ==
    { <<>> } \cup { <<ConcData(u, msgs)>> : u \in Users, msgs \in ConcTranscripts }

ConcOthersUnchanged ==
    UNCHANGED <<session_state, user_feedbacks, feedback_file, pc,
                response_stream, nturns, last_op, rec, kb, sug>>

\* Lines 306-327: the guard passes, chat_data is built and the file is
\* read into all_chats; an exception while reading returns False.
SaveRead(s) ==
    /\ writer[s].pc = "idle"
    /\ \E msgs \in ConcTranscripts, io_ok \in BOOLEAN :
        writer' = [writer EXCEPT ![s] =
            IF io_ok
            THEN [@ EXCEPT !.pc = "loaded",
                           !.chat_data = ConcData(writer[s].username, msgs),
                           !.all_chats = chat_file,
                           !.had = HasRecord(chat_file, writer[s].username),
                           !.result = None]
            ELSE [@ EXCEPT !.chat_data = ConcData(writer[s].username, msgs),
                           !.result = "False"]]
    /\ UNCHANGED chat_file
    /\ ConcOthersUnchanged

SaveWriteRereads(s) ==
    /\ writer[s].pc = "loaded"
    /\ \E io_ok \in BOOLEAN :
        /\ chat_file' = IF io_ok
                        THEN Upsert(chat_file, writer[s].chat_data)
                        ELSE chat_file
        /\ writer' = [writer EXCEPT ![s] =
                [@ EXCEPT !.pc = "idle", !.all_chats = <<>>,
                          !.result = IF io_ok THEN "True" ELSE "False"]]
    /\ ConcOthersUnchanged

\* Lines 329-350: the list that was read is updated and written over the
\* file; an exception while writing returns False.
SaveWrite(s) ==
    /\ writer[s].pc = "loaded"
    /\ \E io_ok \in BOOLEAN :
        /\ chat_file' = IF io_ok
                        THEN Upsert(writer[s].all_chats, writer[s].chat_data)
                        ELSE chat_file
        /\ writer' = [writer EXCEPT ![s] =
                [@ EXCEPT !.pc = "idle", !.all_chats = <<>>,
                          !.result = IF io_ok THEN "True" ELSE "False"]]
    /\ ConcOthersUnchanged

InitConc ==
    /\ chat_file \in InitCollections
    /\ writer \in [Sessions ->
            {[pc |-> "idle", username |-> u, chat_data |-> NoData,
              all_chats |-> <<>>, had |-> FALSE, result |-> None] : u \in Users}]
    /\ session_state = InitSession
    /\ user_feedbacks = <<>>
    /\ feedback_file = <<>>
    /\ pc = "idle"
    /\ response_stream = None
    /\ nturns = 0
    /\ last_op = NoSave("init", 0, None)
    /\ sug = Idle
    /\ rec = Idle
    /\ kb = Idle

NextConc ==
    \/ \E s \in Sessions : SaveRead(s)
    \/ \E s \in Sessions : SaveWrite(s)

SpecConc == InitConc /\ [][NextConc]_vars

\* C4: starting from an empty or duplicate-free collection, after any
\* sequence of saves by any identities the collection holds at most one
\* record per identity.
C4_OneRecordPerIdentity ==
    \A u \in Users : Cardinality(RecordsOf(chat_file, u)) <= 1

\* C4's case: the collection holds the records of two identities and one
\* of them was written over a record its writer found.
C4_Witness ==
    /\ Len(chat_file) = 2
    /\ \E s \in Sessions : writer[s].result = "True" /\ writer[s].had

RecordSet(file, u) == {file[i] : i \in RecordsOf(file, u)}

\* C6: the persistence layer is not safe under concurrent writers.  A
\* write that succeeds leaves of every other identity exactly the records
\* its writer had read, so a record another session wrote between the read
\* and the write is gone; C6_Witness is the state after such a lost update.
C6_WriteKeepsOnlyWhatWasRead ==
    [][\A s \in Sessions :
          (writer[s].pc = "loaded" /\ writer'[s].result = "True")
          => \A u \in Users \ {writer[s].username} :
                RecordSet(chat_file', u) = RecordSet(writer[s].all_chats, u)]_vars

\* C6's case: both sessions, bound to different identities, ended a save
\* with success, and the record of one of them is absent from the
\* collection.
C6_Witness ==
    /\ writer["s1"].username # writer["s2"].username
    /\ \A s \in Sessions : writer[s].pc = "idle" /\ writer[s].result = "True"
    /\ \E s \in Sessions : ~HasRecord(chat_file, writer[s].username)

\* ------------------------------------------------------ recommendations

\* Bounds of the inputs of one call of get_smart_recommendations.
MaxCandidates == 2
MaxHistory == 2

RecQuestions == {"q1", "q2", "q3"}
RecQueries == {"q1", ""}
RecMessages ==
    { [role |-> "user", content |-> "q1"], [role |-> "user", content |-> "q2"],
      [role |-> "assistant", content |-> "q2"] }

RecOthersUnchanged ==
    UNCHANGED <<session_state, chat_file, user_feedbacks, feedback_file, pc,
                response_stream, nturns, last_op, writer, kb, sug>>

Returned(path, available, scores, result) ==
    [rec EXCEPT !.pc = "done", !.path = path, !.available = available,
                !.scores = scores, !.result = result]

\* An empty knowledge base, an empty question, or nothing left to suggest.
RecommendNothing ==
    /\ rec.pc = "call"
    /\ LET available == available_questions(rec.all_questions, rec.user_history)
       IN  /\ rec.all_questions = <<>> \/ rec.current_question = "" \/ available = <<>>
           /\ rec' = Returned("empty", <<>>, <<>>, <<>>)
    /\ RecOthersUnchanged

\* The try block: the scores of the candidates (a candidate's score is a
\* function of its text), the indices of the top_n highest, and the
\* candidates above the threshold among them.
RecommendBySimilarity ==
    /\ rec.pc = "call"
    /\ rec.all_questions # <<>> /\ rec.current_question # ""
    /\ LET available == available_questions(rec.all_questions, rec.user_history)
       IN  /\ available # <<>>
           /\ \E score \in [RecQuestions -> ScoreVals] :
                LET scores == [i \in 1..Len(available) |-> score[available[i]]]
                IN  \E order \in ArgSorts(scores) :
                        rec' = Returned("similarity", available, scores,
                                        recommendations(available, scores,
                                            top_indices(order, rec.top_n)))
    /\ RecOthersUnchanged

\* The except block: the vectorizer raised, a random sample is returned.
RecommendFallback ==
    /\ rec.pc = "call"
    /\ rec.all_questions # <<>> /\ rec.current_question # ""
    /\ LET available == available_questions(rec.all_questions, rec.user_history)
       IN  /\ available # <<>>
           /\ \E result \in Samples(available, Min(rec.top_n, Len(available))) :
                rec' = Returned("fallback", available, <<>>, result)
    /\ RecOthersUnchanged

InitRec ==
    /\ rec \in [pc : {"call"}, current_question : RecQueries,
                all_questions : SeqsUpTo(RecQuestions, MaxCandidates),
                user_history : SeqsUpTo(RecMessages, MaxHistory),
                top_n : 1..top_n_default,
                path : {"none"}, available : {<<>>}, scores : {<<>>},
                result : {<<>>}]
    /\ session_state = InitSession
    /\ chat_file = <<>>
    /\ user_feedbacks = <<>>
    /\ feedback_file = <<>>
    /\ pc = "idle"
    /\ response_stream = None
    /\ nturns = 0
    /\ last_op = NoSave("init", 0, None)
    /\ sug = Idle
    /\ writer = Idle
    /\ kb = Idle

NextRec ==
    \/ RecommendNothing
    \/ RecommendBySimilarity
    \/ RecommendFallback

SpecRec == InitRec /\ [][NextRec]_vars

\* C7: on the similarity path and on the fallback path, no returned
\* question is one of the questions already asked in the transcript.
C7_NoAskedQuestionReturned ==
    rec.pc = "done" =>
        \A i \in DOMAIN rec.result :
            rec.result[i].question \notin history_questions(rec.user_history)

\* C7's case: the question just asked is in the knowledge base and in the
\* history, and the call still returned something.
C7_Witness ==
    /\ rec.pc = "done"
    /\ rec.path = "similarity"
    /\ rec.result # <<>>
    /\ rec.current_question \in history_questions(rec.user_history)
    /\ rec.current_question \in Range(rec.all_questions)

\* C8 as stated: at most min(n, number of candidates left) items are
\* returned and every returned item carries a score above 0.1.
C8_AsStated ==
    rec.pc = "done" =>
        /\ Len(rec.result) <=
              Min(rec.top_n, Len(available_questions(rec.all_questions,
                                                     rec.user_history)))
        /\ \A i \in DOMAIN rec.result :
              /\ rec.result[i].type = "dict"
              /\ rec.result[i].similarity > Threshold

\* The first position of a question among the candidates, and its score.
Pos(q) == CHOOSE i \in DOMAIN rec.available :
            /\ rec.available[i] = q
            /\ \A j \in DOMAIN rec.available : rec.available[j] = q => i <= j

Before(qa, qb) ==
    \/ rec.scores[Pos(qa)] > rec.scores[Pos(qb)]
    \/ rec.scores[Pos(qa)] = rec.scores[Pos(qb)] /\ Pos(qa) <= Pos(qb)

\* C9 as stated: the returned questions are listed by descending score,
\* and of two candidates with equal scores the one that comes earlier in
\* the candidate order is selected first and listed first.
C9_AsStated ==
    (rec.pc = "done" /\ rec.path = "similarity") =>
        /\ \A i, j \in DOMAIN rec.result :
              i < j => Before(rec.result[i].question, rec.result[j].question)
        /\ \A i \in DOMAIN rec.result : \A q \in Range(rec.available) :
              (/\ q \notin {rec.result[k].question : k \in DOMAIN rec.result}
               /\ rec.scores[Pos(q)] > Threshold)
              => Before(rec.result[i].question, q)

\* ------------------------------------------------------ knowledge lookup

\* Bounds of the inputs of search_knowledge_context.
MaxRows == 2
MaxStrLen == 1

\* Strings are sequences of characters.  "a"/"A" and "s"/"S" are cased
\* pairs; "eszett" is the letter whose upper() is "SS" and whose lower()
\* is itself.
Chars == {"a", "A", "s", "S", "eszett"}

lower_char(c) ==
    CASE c = "A" -> <<"a">>
      [] c = "S" -> <<"s">>
      [] OTHER -> <<c>>

upper_char(c) ==
    CASE c = "a" -> <<"A">>
      [] c = "s" -> <<"S">>
      [] c = "eszett" -> <<"S", "S">>
      [] OTHER -> <<c>>

RECURSIVE lower(_)
lower(str) == IF str = <<>> THEN <<>> ELSE lower_char(Head(str)) \o lower(Tail(str))

RECURSIVE upper(_)
upper(str) == IF str = <<>> THEN <<>> ELSE upper_char(Head(str)) \o upper(Tail(str))

\* The context when no row matches.
Sentinel == "no exact match"

Strings == UNION {[1..k -> Chars] : k \in 1..MaxStrLen}

\* The data frames: row i has a question and the context named after i.
DataFrames ==
    UNION {{[i \in 1..k |-> [question |-> qs[i],
                             context |-> IF i = 1 THEN "k1"
                                         ELSE IF i = 2 THEN "k2" ELSE "k3"]] :
                qs \in [1..k -> Strings]} : k \in 0..MaxRows}

\* search_knowledge_context: "" for an empty frame or an empty question,
\* the context of the first row whose lowered question equals the lowered
\* question, else the sentinel.
search_knowledge_context(question, df) ==
    IF df = <<>> \/ question = <<>> THEN ""
    ELSE LET result == SelectSeq(df, LAMBDA row : lower(row.question) = lower(question))
         IN  IF result # <<>> THEN result[1].context ELSE Sentinel

\* One call with a question, and one with the question in upper case.
Lookup ==
    /\ kb.pc = "call"
    /\ kb' = [kb EXCEPT !.pc = "done",
                !.context = search_knowledge_context(kb.question, kb.df),
                !.context_upper = search_knowledge_context(upper(kb.question), kb.df)]
    /\ UNCHANGED <<session_state, chat_file, user_feedbacks, feedback_file, pc,
                   response_stream, nturns, last_op, writer, rec, sug>>

InitLookup ==
    /\ kb \in [pc : {"call"}, df : DataFrames, question : Strings \cup {<<>>},
               context : {None}, context_upper : {None}]
    /\ session_state = InitSession
    /\ chat_file = <<>>
    /\ user_feedbacks = <<>>
    /\ feedback_file = <<>>
    /\ pc = "idle"
    /\ response_stream = None
    /\ nturns = 0
    /\ last_op = NoSave("init", 0, None)
    /\ sug = Idle
    /\ writer = Idle
    /\ rec = Idle

NextLookup == Lookup

SpecLookup == InitLookup /\ [][NextLookup]_vars

\* C10: for a knowledge entry with question Q, lookup(Q) and
\* lookup(Q.upper()) return the same context.
C10_AsStated ==
    (kb.pc = "done" /\ \E i \in DOMAIN kb.df : kb.df[i].question = kb.question)
        => kb.context = kb.context_upper

\* C11: for every (non-empty) question that matches no knowledge entry,
\* the empty knowledge set included, lookup returns the sentinel context.
C11_AsStated ==
    (/\ kb.pc = "done"
     /\ kb.question # <<>>
     /\ \A i \in DOMAIN kb.df : lower(kb.df[i].question) # lower(kb.question))
        => kb.context = Sentinel

\* ---------------------------------------------------------- rating calls

\* Calls of rate_response with any message index, on any short transcript
\* and any feedback logs.
MaxMessages == 3

RateMessages == {Message("user", "q1"), Message("assistant", "reply")}

\* The transcripts the script builds: a reply is only ever appended behind
\* the question it answers; a question whose stream broke has no reply.
RateTranscripts ==
    {messages \in SeqsUpTo(RateMessages, MaxMessages) :
        \A j \in DOMAIN messages :
            messages[j].role = "assistant" =>
                j > 1 /\ messages[j - 1].role = "user"}

\* A record an earlier rating left in a log.
EarlierFeedback(username) ==
    [username |-> username, question |-> "x", answer |-> Apology,
     persona |-> persona_selector, rating |-> "good", feedback_text |-> ""]

\* rate_response(message_index, rating) with message_index = i - 1.
RateCall(i, r) ==
    /\ \E rd_ok, wr_ok \in BOOLEAN :
        LET res == rate_response(session_state, user_feedbacks,
                                 feedback_file, i, r, rd_ok, wr_ok)
        IN  /\ Len(res.uf) <= MaxFeedback
            /\ Len(res.ff) <= MaxFeedback
            /\ session_state' = res.ss
            /\ user_feedbacks' = res.uf
            /\ feedback_file' = res.ff
            /\ last_op' = NoSave(IF res.ok THEN "rate" ELSE "rate_failed", i, r)
    /\ UNCHANGED <<chat_file, pc, response_stream, nturns>>
    /\ OthersUnchanged

InitRate ==
    /\ \E logged_in \in BOOLEAN, messages \in RateTranscripts :
        session_state = [InitSession EXCEPT
            !.logged_in = logged_in,
            !.username = IF logged_in THEN "user" ELSE None,
            !.messages = messages,
            !.asked_questions = history_questions(messages),
            !.selected_category = "c1"]
    /\ user_feedbacks \in SeqsUpTo({EarlierFeedback("admin")}, MaxFeedback)
    /\ feedback_file \in SeqsUpTo({EarlierFeedback(None)}, MaxFeedback)
    /\ chat_file = <<>>
    /\ pc = "idle"
    /\ response_stream = None
    /\ nturns = 0
    /\ last_op = NoSave("init", 0, None)
    /\ sug = Idle
    /\ writer = Idle
    /\ rec = Idle
    /\ kb = Idle

NextRate == \E i \in 1..(MaxMessages + 1), r \in Ratings : RateCall(i, r)

SpecRate == InitRate /\ [][NextRate]_vars

\* The log rate_response writes to in a session.
FeedbackLog(ss, uf, ff) == IF ss.logged_in THEN uf ELSE ff

\* C16: rate(i, r) sets the rating only on an assistant message that
\* directly follows a user message, and sets it exactly when it wrote the
\* FeedbackRecord of that question/answer pair at the end of the log in
\* the same step; when the message is not an assistant message, the index
\* is out of range or the feedback write fails, the rating, the transcript
\* and the logs are unchanged.
C16_RatingIffFeedback ==
    [][LET i == last_op'.n
           messages == session_state.messages
           log == FeedbackLog(session_state, user_feedbacks', feedback_file')
       IN  /\ last_op'.op = "rate" =>
                /\ i \in 2..Len(messages)
                /\ messages[i].role = "assistant"
                /\ messages[i - 1].role = "user"
                /\ session_state' =
                      [session_state EXCEPT !.messages[i].rating = last_op'.val]
                /\ log # <<>>
                /\ log[Len(log)] =
                      [username |-> session_state.username,
                       question |-> messages[i - 1].content,
                       answer |-> messages[i].content,
                       persona |-> messages[i].persona,
                       rating |-> last_op'.val, feedback_text |-> ""]
                /\ session_state.logged_in =>
                      /\ user_feedbacks' = Append(user_feedbacks, log[Len(log)])
                      /\ feedback_file' = feedback_file
                /\ ~session_state.logged_in => user_feedbacks' = user_feedbacks
           /\ last_op'.op # "rate" =>
                /\ session_state' = session_state
                /\ user_feedbacks' = user_feedbacks
                /\ feedback_file' = feedback_file]_vars

\* C16's case: a rating was set on a reply, and a call on a user message
\* changed nothing.
C16_Witness ==
    /\ last_op.op = "rate_failed"
    /\ last_op.n \in DOMAIN session_state.messages
    /\ session_state.messages[last_op.n].role = "user"
    /\ \E i \in DOMAIN session_state.messages :
            session_state.messages[i].rating # None
    /\ user_feedbacks # <<>>

IsPrefix(s, t) == Len(s) <= Len(t) /\ SubSeq(t, 1, Len(s)) = s

\* C17 as stated: the feedback logs are append-only: a rating, one whose
\* read or write of the log fails included, leaves every record written
\* before in its place and adds at most one record at the end.
C17_AsStated ==
    [][/\ IsPrefix(feedback_file, feedback_file')
       /\ Len(feedback_file') <= Len(feedback_file) + 1
       /\ IsPrefix(user_feedbacks, user_feedbacks')
       /\ Len(user_feedbacks') <= Len(user_feedbacks) + 1]_vars

\* ---------------------------------------------------- suggested questions

\* The knowledge bases one rendering is checked on: MaxQuestions rows with
\* distinct questions, each in one of two categories.
MaxQuestions == 4

\* min(3, len(available_qs))
max_shown == 3

QuestionAt(i) ==
    CASE i = 1 -> "q1" [] i = 2 -> "q2" [] i = 3 -> "q3" [] i = 4 -> "q4"
      [] OTHER -> "q5"

\* knowledge_df[knowledge_df['类别'] == selected_category]
category_df(df, selected_category) ==
    SelectSeq(df, LAMBDA row : row.category = selected_category)

\* The questions of category_df that are not in asked_questions, in the
\* order of the knowledge base.
available_qs_list(df, selected_category, asked_questions) ==
    LET rows == SelectSeq(category_df(df, selected_category),
                          LAMBDA row : row.question \notin asked_questions)
    IN  [i \in 1..Len(rows) |-> rows[i].question]

questions_to_show_all(available) == {available}

\* random.sample(available_qs, min(3, len(available_qs))): what may be
\* shown.
questions_to_show(available) ==
    {[i \in 1..Min(max_shown, Len(available)) |-> available[p[i]]] :
        p \in Perms(Len(available))}

\* The else branch of the interaction UI up to the suggestion buttons: the
\* buttons of a sample, or the all-explored notice when nothing is left.
ShowSuggestions ==
    /\ sug.pc = "render"
    /\ LET available == available_qs_list(sug.df, sug.selected_category,
                                          sug.asked_questions)
       IN  IF available # <<>>
           THEN \E shown \in questions_to_show(available) :
                    sug' = [sug EXCEPT !.pc = "buttons", !.shown = shown]
           ELSE sug' = [sug EXCEPT !.pc = "all_explored"]
    /\ UNCHANGED <<session_state, chat_file, user_feedbacks, feedback_file, pc,
                   response_stream, nturns, last_op, writer, rec, kb>>

InitSuggest ==
    /\ \E category \in [1..MaxQuestions -> Categories],
          selected_category \in Categories,
          asked_questions \in SUBSET {QuestionAt(i) : i \in 1..MaxQuestions} :
        sug = [pc |-> "render",
               df |-> [i \in 1..MaxQuestions |->
                          [category |-> category[i], question |-> QuestionAt(i)]],
               selected_category |-> selected_category,
               asked_questions |-> asked_questions,
               shown |-> <<>>]
    /\ session_state = InitSession
    /\ chat_file = <<>>
    /\ user_feedbacks = <<>>
    /\ feedback_file = <<>>
    /\ pc = "idle"
    /\ response_stream = None
    /\ nturns = 0
    /\ last_op = NoSave("init", 0, None)
    /\ writer = Idle
    /\ rec = Idle
    /\ kb = Idle

NextSuggest == ShowSuggestions

SpecSuggest == InitSuggest /\ [][NextSuggest]_vars

\* C23: the suggested questions shown for the selected category are at
\* most 3, all are questions of the selected category, none is a member
\* of asked_questions; when every question of the category has been asked
\* no suggestion is offered.
C23_SuggestionsOfCategoryNotAsked ==
    LET of_category ==
            {sug.df[i].question :
                i \in {j \in DOMAIN sug.df :
                          sug.df[j].category = sug.selected_category}}
    IN  sug.pc # "render" =>
            /\ Len(sug.shown) <= 3
            /\ \A i \in DOMAIN sug.shown :
                  /\ sug.shown[i] \in of_category
                  /\ sug.shown[i] \notin sug.asked_questions
            /\ of_category \subseteq sug.asked_questions => sug.shown = <<>>
            /\ sug.pc = "all_explored" <=> of_category \subseteq sug.asked_questions

\* C23's case: four questions of the category were left and three of them
\* are shown.
C23_Witness ==
    /\ sug.pc = "buttons"
    /\ Len(sug.shown) = 3
    /\ Len(available_qs_list(sug.df, sug.selected_category,
                             sug.asked_questions)) = 4

====
